---- MODULE Spec2Model ----
(***************************************************************************)
(* A model of the Spotify account-linking flow of the Discord music bot:   *)
(*   spotify_auth.py  SpotifyAuthManager (pending states, callback, token  *)
(*                    refresh, playlist batching)                          *)
(*   keep_alive.py    the Flask callback endpoint and its globals          *)
(*   bot.py, main.py  the startup sequence                                 *)
(*   database.py      the token store and its lock                         *)
(*                                                                         *)
(* Threads.  main.py starts the Flask server on its own thread before the  *)
(* bot exists; the bot (the daemon) runs generate_auth_url on the main     *)
(* thread; every callback request runs spotify_callback on a server        *)
(* worker thread.  The threads share SpotifyAuthManager.pending_auth and   *)
(* the module globals of keep_alive.py without any lock, so each access to *)
(* them is a step of its own and the steps of different threads            *)
(* interleave.                                                             *)
(*                                                                         *)
(* Time is counted in minutes.                                             *)
(***************************************************************************)
EXTENDS Integers, Sequences, FiniteSets, TLC

---------------------------------------------------------------------------
(* Bounds of the model *)

NumUsers == 2
MaxStates == 2
NumWorkers == 2
MaxTime == 20
TickStep == 10
MaxTracks == 250
NumDaemonTasks == 2
NumCallbackTasks == 1
MaxLogs == 2
MaxErrors == 4

(* Program constants *)

\* timedelta(minutes=10), spotify_auth.py line 53
ExpiryMinutes == 10
\* token_data.get('expires_in', 3600): 3600 seconds, in minutes
DefaultExpiresIn == 60
\* range(0, len(track_uris), 100) and track_uris[i:i+100], "Spotify API
\* limits to 100 tracks per request", spotify_auth.py lines 277-279
BatchSize == 100

---------------------------------------------------------------------------
(* Values *)

\* Python's None, for values that are otherwise strings
None == "None"
\* Python's None, for values that are otherwise records (dicts)
NoneRec == [none |-> TRUE]
\* an exception leaving a function, for values that are otherwise records
Raised(exc) == [raised |-> exc]

Users == 1..NumUsers
NoUser == 0

\* secrets.token_urlsafe(32) yields a fresh token on every call: the n-th
\* call of the run yields the n-th name of this list
StateNames == <<"s1", "s2", "s3", "s4", "s5", "s6">>
States == {StateNames[i] : i \in 1..MaxStates}
\* a state value no generate_auth_url call has produced
Forged == "forged"

Workers == 1..NumWorkers

\* truthiness of an optional string: "if error", "not code", "not state"
Truthy(v) == v # None /\ v # ""

---------------------------------------------------------------------------
(* State *)

VARIABLES
    now,            \* datetime.now(), in minutes
    mainpc,         \* the position of main.py / MusicBot.setup_hook
    spotify_auth,   \* keep_alive.spotify_auth is set (not None)
    bot_instance,   \* keep_alive.bot_instance is set (not None)
    pending_auth,   \* SpotifyAuthManager.pending_auth: state -> entry
    gen,            \* the generate_auth_url call in progress on the daemon
    wk,             \* the callback requests in progress, one per worker
    users,          \* table users of the store: discord_id -> row
    lastResp,       \* the response the step just taken returned to the
                    \* client, NoResp when it returned none
    issuer,         \* history: state -> discord_id it was generated for
    delivered,      \* history: states whose authorization URL was returned
    consumed,       \* history: states handle_callback has deleted
    savedVia,       \* history: discord_id -> state of the callback that
                    \* wrote the user's row last
    rf,             \* a refresh_token call: its arguments and its result
    pl,             \* a create_playlist call: its arguments, its position,
                    \* the requests it has sent
    lock_locked,    \* DatabaseManager._lock._locked
    lock_waiters,   \* DatabaseManager._lock._waiters, as tasks
    taskpc,         \* the storage calls in progress: task -> position
    executing,      \* the tasks whose storage operation is executing on
                    \* an executor thread
    hc,             \* a handle_callback call made on its own, nothing
                    \* else running: its arguments and what it returned
    tables,         \* the tables of the store, under calls of the storage
                    \* methods one after the other
    eh,             \* the bot's on_command_error: the error it handles,
                    \* what it has logged and sent
    gu,             \* a generate_auth_url call made on its own: its
                    \* argument, the dictionary before and after
    af              \* a get_audio_features call: its argument, its
                    \* position, the requests it has sent and its result

flowVars == <<now, mainpc, spotify_auth, bot_instance, pending_auth, gen, wk,
              users, lastResp, issuer, delivered, consumed, savedVia>>

dbVars == <<lock_locked, lock_waiters, taskpc, executing>>

unitVars == <<hc, tables, eh, gu, af>>

vars == <<flowVars, rf, pl, dbVars, unitVars>>

---------------------------------------------------------------------------
(* The provider (accounts.spotify.com, api.spotify.com) *)

\* a JSON key the response does not hold
Absent == "absent"

\* The answer to POST /api/token.  kind: what requests.post and
\* raise_for_status make of it; expires_in: <<>> when the key is missing,
\* <<n>> when it is n.
TokenResp(kind, at, rt, ei) ==
    [kind |-> kind, access_token |-> at, refresh_token |-> rt, expires_in |-> ei]

FlowTokenResponses ==
    { TokenResp("transport_error", Absent, Absent, <<>>),
      TokenResp("http_error", Absent, Absent, <<>>),
      TokenResp("ok", "at1", "rt1", <<>>),
      TokenResp("ok", "at2", "rt2", <<>>),
      TokenResp("ok", "at1", Absent, <<>>),
      TokenResp("ok", Absent, "rt1", <<>>) }

\* The answer to GET /v1/me: id is the profile's 'id' key.
ProfileResp(kind, empty, id) == [kind |-> kind, empty |-> empty, id |-> id]

FlowProfileResponses ==
    { ProfileResp("transport_error", TRUE, Absent),
      ProfileResp("http_error", TRUE, Absent),
      ProfileResp("ok", TRUE, Absent),
      ProfileResp("ok", FALSE, Absent),
      ProfileResp("ok", FALSE, "sp1") }

---------------------------------------------------------------------------
(* SpotifyAuthManager: pure parts *)

EmptyDict == [s \in {} |-> NoneRec]

DictSet(d, k, v) == [x \in DOMAIN d \cup {k} |-> IF x = k THEN v ELSE d[x]]

\* a slip: the entry is read but not removed
DictDel_Keeps(d, k) == d

DictDel(d, k) == [x \in DOMAIN d \ {k} |-> d[x]]

\* generate_auth_url, line 53: cutoff = now - 10 minutes
Cutoff(t) == t - ExpiryMinutes

\* generate_auth_url, lines 54-57: the entries the sweep keeps
\* a slip: the entry that is exactly as old as the limit is kept
Purge_KeepsBoundary(pending, cutoff) ==
    [k \in {s \in DOMAIN pending : pending[s].timestamp >= cutoff} |-> pending[k]]

Purge(pending, cutoff) ==
    [k \in {s \in DOMAIN pending : pending[s].timestamp > cutoff} |-> pending[k]]

\* a slip: the id is read from some entry, not from the entry of the state
EntryDiscordId_AnyEntry(pending, state) ==
    pending[CHOOSE k \in DOMAIN pending : \A j \in DOMAIN pending :
                pending[j].discord_id >= pending[k].discord_id].discord_id

\* handle_callback, line 77: the discord_id stored with the state
EntryDiscordId(pending, state) == pending[state].discord_id

\* expires_at of a token response read at time t
ExpiresAt(resp, t) ==
    t + (IF resp.expires_in = <<>> THEN DefaultExpiresIn ELSE resp.expires_in[1])

\* _exchange_code_for_tokens, lines 124-142: None on a RequestException,
\* a KeyError when a token key is missing, else the token record
ExchangeCodeForTokens(resp, t) ==
    IF resp.kind # "ok" THEN NoneRec
    ELSE IF resp.access_token = Absent \/ resp.refresh_token = Absent
         THEN Raised("KeyError")
    ELSE [access_token |-> resp.access_token,
          refresh_token |-> resp.refresh_token,
          expires_at |-> ExpiresAt(resp, t)]

\* _get_user_info, lines 144-158: None on a RequestException, else the JSON
GetUserInfo(resp) ==
    IF resp.kind # "ok" THEN NoneRec ELSE resp

\* a slip: the try of handle_callback catches what the helpers catch,
\* requests.RequestException, so the KeyError of a missing token key
\* leaves handle_callback
HandleCallbackResult_CatchesRequestOnly(discord_id, tokens, user_info) ==
    IF tokens = NoneRec THEN NoneRec
    ELSE IF tokens = Raised("KeyError") THEN tokens
    ELSE IF user_info = NoneRec \/ user_info.empty THEN NoneRec
    ELSE IF user_info.id = Absent THEN Raised("KeyError")
    ELSE [discord_id |-> discord_id,
          spotify_id |-> user_info.id,
          access_token |-> tokens.access_token,
          refresh_token |-> tokens.refresh_token,
          expires_at |-> tokens.expires_at]

\* a slip: a failed profile fetch does not stop the callback
HandleCallbackResult_IgnoresProfile(discord_id, tokens, user_info) ==
    IF tokens = NoneRec \/ tokens = Raised("KeyError") THEN NoneRec
    ELSE [discord_id |-> discord_id,
          spotify_id |-> None,
          access_token |-> tokens.access_token,
          refresh_token |-> tokens.refresh_token,
          expires_at |-> tokens.expires_at]

\* handle_callback, lines 80-102, after the state was consumed: the result
\* record, or None when the exchange or the profile fetch fails or raises
HandleCallbackResult(discord_id, tokens, user_info) ==
    IF tokens = NoneRec \/ tokens = Raised("KeyError") THEN NoneRec
    ELSE IF user_info = NoneRec \/ user_info.empty THEN NoneRec
    ELSE IF user_info.id = Absent THEN NoneRec
    ELSE [discord_id |-> discord_id,
          spotify_id |-> user_info.id,
          access_token |-> tokens.access_token,
          refresh_token |-> tokens.refresh_token,
          expires_at |-> tokens.expires_at]

\* what the provider did to the callback, lines 82-89: the exchange gave
\* no tokens, or the profile request failed, or both answered
OutcomeOf(tokens, user_info) ==
    IF tokens = NoneRec \/ tokens = Raised("KeyError") THEN "exchange_failed"
    ELSE IF user_info = NoneRec THEN "profile_failed"
    ELSE "ok"

---------------------------------------------------------------------------
(* keep_alive.py: pure parts *)

\* a slip: the auth manager is tested before the parameters
ValidateStatus_AuthFirst(code, state, error, auth) ==
    IF ~auth THEN 503
    ELSE IF Truthy(error) THEN 400
    ELSE IF ~Truthy(code) \/ ~Truthy(state) THEN 400
    ELSE 0

\* a slip: the auth manager is not tested
ValidateStatus_NoAuthTest(code, state, error, auth) ==
    IF Truthy(error) THEN 400
    ELSE IF ~Truthy(code) \/ ~Truthy(state) THEN 400
    ELSE 0

\* spotify_callback, lines 46-78: the status of the early returns, 0 when
\* the request goes on to handle_callback
ValidateStatus(code, state, error, auth) ==
    IF Truthy(error) THEN 400
    ELSE IF ~Truthy(code) \/ ~Truthy(state) THEN 400
    ELSE IF ~auth THEN 503
    ELSE 0

\* spotify_callback, lines 102-131: the status of the page for a result
ResultStatus(result) == IF result # NoneRec THEN 200 ELSE 500

\* spotify_callback, lines 133-143: the status when an exception escapes
ExceptionStatus == 500

\* spotify_callback, lines 93-98: the spotify_data handed to the store
TokenRow(result) ==
    [spotify_id |-> result.spotify_id,
     access_token |-> result.access_token,
     refresh_token |-> result.refresh_token,
     expires_at |-> result.expires_at]

\* a slip: INSERT OR IGNORE, a row that exists is kept
SaveUserTokens_KeepsFirst(tbl, discord_id, data) ==
    IF tbl[discord_id] # NoneRec THEN tbl
    ELSE [tbl EXCEPT ![discord_id] =
            [spotify_id |-> data.spotify_id,
             access_token |-> data.access_token,
             refresh_token |-> data.refresh_token,
             expires_at |-> data.expires_at]]

\* _save_user_tokens_sync, lines 114-131: INSERT OR REPLACE of the row
SaveUserTokens(tbl, discord_id, data) ==
    [tbl EXCEPT ![discord_id] =
        [spotify_id |-> data.spotify_id,
         access_token |-> data.access_token,
         refresh_token |-> data.refresh_token,
         expires_at |-> data.expires_at]]

---------------------------------------------------------------------------
(* Initial state: main() has not started the web server yet *)

IdleGen ==
    [pc |-> "idle", discord_id |-> NoUser, state |-> None, cutoff |-> 0,
     dirty |-> FALSE, newd |-> EmptyDict]

IdleWorker ==
    [pc |-> "idle", code |-> None, state |-> None, error |-> None,
     expired |-> FALSE, reused |-> FALSE, discord_id |-> NoUser]

NoResp ==
    [status |-> 0, code |-> None, state |-> None, error |-> None,
     authSet |-> FALSE, called |-> FALSE, wasPending |-> FALSE,
     expired |-> FALSE, exchanged |-> FALSE, outcome |-> "none",
     saved |-> FALSE, row |-> NoneRec, loop |-> "none"]

InitFlow ==
    /\ now = 0
    /\ mainpc = "start"
    /\ spotify_auth = FALSE
    /\ bot_instance = FALSE
    /\ pending_auth = EmptyDict
    /\ gen = IdleGen
    /\ wk = [w \in Workers |-> IdleWorker]
    /\ users = [d \in Users |-> NoneRec]
    /\ lastResp = NoResp
    /\ issuer = [s \in States |-> NoUser]
    /\ delivered = {}
    /\ consumed = {}
    /\ savedVia = [d \in Users |-> None]

\* no refresh_token call
IdleRefresh ==
    [pc |-> "idle", old |-> None, resp |-> NoneRec, t |-> 0, result |-> NoneRec]

\* no create_playlist call
IdlePlaylist ==
    [pc |-> "idle", track_uris |-> <<>>, i |-> 0, created |-> FALSE,
     requests |-> <<>>, items |-> <<>>, result |-> None,
     failed_at |-> 0, rollbacks |-> 0]

\* the tasks that call the store: coroutines of the daemon's loop and
\* callbacks, each on the loop of its worker thread
DaemonTasks == 1..NumDaemonTasks
CallbackTasks == (NumDaemonTasks + 1)..(NumDaemonTasks + NumCallbackTasks)
Tasks == DaemonTasks \cup CallbackTasks

\* the event loop, and so the thread, a task runs on
LoopOf(x) == IF x \in DaemonTasks THEN 0 ELSE x

\* DatabaseManager.__init__, database.py line 18: a free lock, nothing running
InitLock ==
    /\ lock_locked = FALSE
    /\ lock_waiters = <<>>
    /\ taskpc = [x \in Tasks |-> "idle"]
    /\ executing = {}

\* no handle_callback call on its own
IdleHandle ==
    [pc |-> "idle", pending |-> EmptyDict, state |-> None, t |-> 0,
     tokenResp |-> NoneRec, profileResp |-> NoneRec,
     ret |-> NoneRec, pending_after |-> EmptyDict, requests |-> <<>>]

\* _create_tables, database.py lines 27-105: five empty tables.  users
\* has one row per discord_id (its primary key); the rows of user_tracks
\* and user_artists are unique per (discord_id, item); command_logs grows
\* by one row per log_command.  last: the storage method called last;
\* latest: per user the spotify_data of the last save_user_tokens that no
\* delete_user_data followed, as the calls were made.
EmptyTables ==
    [users |-> {},
     latest |-> [d \in Users |-> NoneRec],
     user_tracks |-> {},
     user_artists |-> {},
     playlists |-> {},
     command_logs |-> <<>>,
     last |-> <<"none", NoUser>>]

\* on_command_error is not running and has handled no error
IdleHandler ==
    [pc |-> "idle", error |-> None, interaction |-> FALSE, is_done |-> FALSE,
     ncalls |-> 0, logged |-> 0, sent_response |-> 0, sent_channel |-> 0]

\* no generate_auth_url call on its own
IdleGenerate ==
    [pc |-> "idle", discord_id |-> NoUser, state |-> None, t |-> 0,
     pending |-> EmptyDict, after |-> EmptyDict]

\* what get_audio_features returns: None, or a list of features
NoFeatures == [returned |-> "None", value |-> <<>>]
FeatureList(features) == [returned |-> "list", value |-> features]

\* no get_audio_features call.  responses: what the provider answered to
\* the requests, in request order; failed_at: the number of the request
\* that failed, 0 when none did
IdleFeatures ==
    [pc |-> "idle", track_ids |-> <<>>, i |-> 0, all_features |-> <<>>,
     requests |-> <<>>, responses |-> <<>>, failed_at |-> 0,
     result |-> NoFeatures]

\* the parts that are studied one call at a time are at rest
InitUnits ==
    /\ hc = IdleHandle
    /\ tables = EmptyTables
    /\ eh = IdleHandler
    /\ gu = IdleGenerate
    /\ af = IdleFeatures

\* the program after construction: nothing called yet
Init ==
    /\ InitFlow
    /\ rf = IdleRefresh
    /\ pl = IdlePlaylist
    /\ InitLock
    /\ InitUnits

---------------------------------------------------------------------------
(* The startup sequence: main.py lines 19-32, bot.py lines 31-58 *)

startupFrame ==
    /\ lastResp' = NoResp
    /\ UNCHANGED <<now, pending_auth, gen, wk, users, issuer, delivered,
                   consumed, savedVia>>
    /\ UNCHANGED <<rf, pl, dbVars, unitVars>>

\* main.py line 20: keep_alive() starts the server thread
KeepAlive ==
    /\ mainpc = "start"
    /\ mainpc' = "serving"
    /\ UNCHANGED <<spotify_auth, bot_instance>>
    /\ startupFrame

\* bot.py lines 53-54: SpotifyAuthManager(), set_spotify_auth
SetSpotifyAuth ==
    /\ mainpc = "serving"
    /\ mainpc' = "auth_set"
    /\ spotify_auth' = TRUE
    /\ UNCHANGED bot_instance
    /\ startupFrame

\* bot.py line 55: set_bot_instance
SetBotInstance ==
    /\ mainpc = "auth_set"
    /\ mainpc' = "bot_set"
    /\ bot_instance' = TRUE
    /\ UNCHANGED spotify_auth
    /\ startupFrame

\* bot.py line 58: load_cogs; the commands can run from here on
LoadCogs ==
    /\ mainpc = "bot_set"
    /\ mainpc' = "ready"
    /\ UNCHANGED <<spotify_auth, bot_instance>>
    /\ startupFrame

\* the clock
Tick ==
    /\ now + TickStep <= MaxTime
    /\ now' = now + TickStep
    /\ lastResp' = NoResp
    /\ UNCHANGED <<mainpc, spotify_auth, bot_instance, pending_auth, gen, wk,
                   users, issuer, delivered, consumed, savedVia>>
    /\ UNCHANGED <<rf, pl, dbVars, unitVars>>

---------------------------------------------------------------------------
(* generate_auth_url on the daemon thread, spotify_auth.py lines 44-68 *)

genFrame ==
    /\ lastResp' = NoResp
    /\ UNCHANGED <<now, mainpc, spotify_auth, bot_instance, wk, users,
                   consumed, savedVia>>
    /\ UNCHANGED <<rf, pl, dbVars, unitVars>>

\* a different startup: commands are served as soon as the auth manager
\* is registered
CommandsLoaded_WithAuthManager(pc) == pc \in {"auth_set", "bot_set", "ready"}

\* the commands that call generate_auth_url are in the cogs, which
\* setup_hook loads last (bot.py line 58), before the bot connects
CommandsLoaded(pc) == pc = "ready"

NumIssued == Cardinality({s \in States : issuer[s] # NoUser})

\* lines 46-55: a fresh state is stored with the caller's id and the time,
\* the cutoff is taken and the comprehension starts to iterate over the
\* dictionary
GenInsert(d) ==
    /\ CommandsLoaded(mainpc)
    /\ gen.pc = "idle"
    /\ NumIssued < MaxStates
    /\ LET s == StateNames[NumIssued + 1]
       IN  /\ pending_auth' =
                DictSet(pending_auth, s, [discord_id |-> d, timestamp |-> now])
           /\ issuer' = [issuer EXCEPT ![s] = d]
           /\ gen' = [IdleGen EXCEPT !.pc = "iterating", !.discord_id = d,
                                     !.state = s, !.cutoff = Cutoff(now)]
    /\ UNCHANGED delivered
    /\ genFrame

\* lines 54-57: the comprehension ends.  A dictionary that lost an entry
\* while it was iterated raises RuntimeError out of generate_auth_url;
\* otherwise the kept entries are the new dictionary, not yet assigned.
GenEndSweep ==
    /\ gen.pc = "iterating"
    /\ IF gen.dirty
       THEN gen' = IdleGen
       ELSE gen' = [gen EXCEPT !.pc = "assign",
                               !.newd = Purge(pending_auth, gen.cutoff)]
    /\ UNCHANGED <<pending_auth, issuer, delivered>>
    /\ genFrame

\* line 54: self.pending_auth = <the new dictionary>; line 68: the URL
\* that carries the state is returned
GenAssign ==
    /\ gen.pc = "assign"
    /\ pending_auth' = gen.newd
    /\ delivered' = delivered \cup {gen.state}
    /\ gen' = IdleGen
    /\ UNCHANGED issuer
    /\ genFrame

---------------------------------------------------------------------------
(* spotify_callback on a worker thread, keep_alive.py lines 39-143, with   *)
(* handle_callback, spotify_auth.py lines 70-102                           *)

workerFrame ==
    /\ UNCHANGED <<now, mainpc, spotify_auth, bot_instance, issuer, delivered>>
    /\ UNCHANGED <<rf, pl, dbVars, unitVars>>

\* what a request can carry in a parameter: nothing, the empty string, a
\* value; a state value is one a returned URL carried, or a forged one
CodeParams == {None, "", "c1"}
ErrorParams == {None, "", "access_denied"}
StateParams == {None, "", Forged} \cup delivered

\* the redirect of the provider after a grant: a code, a state, no error
GrantCodes == {"c1"}
GrantErrors == {None}
GrantStates == {Forged} \cup delivered

\* the server hands a request to a free worker thread; the threads are
\* alike, so it is the first free one
FirstFree(w) ==
    /\ wk[w].pc = "idle"
    /\ \A v \in Workers : v < w => wk[v].pc # "idle"

\* the response of worker w, which ends its request
Respond(w, status, exchanged, outcome, row, loop) ==
    /\ lastResp' =
          [status |-> status, code |-> wk[w].code, state |-> wk[w].state,
           error |-> wk[w].error, authSet |-> TRUE, called |-> TRUE,
           wasPending |-> TRUE, expired |-> wk[w].expired,
           exchanged |-> exchanged, outcome |-> outcome,
           saved |-> row # NoneRec, row |-> row, loop |-> loop]
    /\ wk' = [wk EXCEPT ![w] = IdleWorker]

\* keep_alive.py lines 42-87 and handle_callback lines 73-75: a request
\* arrives.  It is answered at once by one of the early returns; or a new
\* event loop is made and handle_callback tests the state: an unknown
\* state returns None, the loop is closed and the failure page returned.
Request(w, code, state, error) ==
    /\ mainpc # "start"
    /\ FirstFree(w)
    /\ LET status == ValidateStatus(code, state, error, spotify_auth)
           early == [NoResp EXCEPT !.code = code, !.state = state,
                                   !.error = error, !.authSet = spotify_auth]
       IN  IF status # 0
           THEN /\ lastResp' = [early EXCEPT !.status = status]
                /\ UNCHANGED wk
           ELSE IF state \notin DOMAIN pending_auth
           THEN /\ lastResp' = [early EXCEPT !.status = ResultStatus(NoneRec),
                                   !.called = TRUE, !.loop = "closed"]
                /\ UNCHANGED wk
           ELSE /\ wk' = [wk EXCEPT ![w] =
                            [IdleWorker EXCEPT !.pc = "read", !.code = code,
                               !.state = state, !.error = error,
                               !.expired = now - pending_auth[state].timestamp
                                              > ExpiryMinutes,
                               !.reused = state \in consumed]]
                /\ lastResp' = NoResp
    /\ UNCHANGED <<pending_auth, gen, users, consumed, savedVia>>
    /\ workerFrame

\* handle_callback line 77: the read of the entry's discord_id; a KeyError
\* is raised outside the try and escapes to spotify_callback
ReadDiscordId(w) ==
    /\ wk[w].pc = "read"
    /\ IF wk[w].state \in DOMAIN pending_auth
       THEN /\ wk' = [wk EXCEPT ![w].pc = "del",
                         ![w].discord_id = EntryDiscordId(pending_auth, wk[w].state)]
            /\ lastResp' = NoResp
       ELSE Respond(w, ExceptionStatus, FALSE, "none", NoneRec, "open")
    /\ UNCHANGED <<pending_auth, gen, users, consumed, savedVia>>
    /\ workerFrame

\* handle_callback line 78: del self.pending_auth[state]
DeleteState(w) ==
    /\ wk[w].pc = "del"
    /\ IF wk[w].state \in DOMAIN pending_auth
       THEN /\ pending_auth' = DictDel(pending_auth, wk[w].state)
            /\ consumed' = consumed \cup {wk[w].state}
            /\ gen' = IF gen.pc = "iterating" THEN [gen EXCEPT !.dirty = TRUE]
                      ELSE gen
            /\ wk' = [wk EXCEPT ![w].pc = "exchange"]
            /\ lastResp' = NoResp
       ELSE /\ Respond(w, ExceptionStatus, FALSE, "none", NoneRec, "open")
            /\ UNCHANGED <<pending_auth, consumed, gen>>
    /\ UNCHANGED <<users, savedVia>>
    /\ workerFrame

\* handle_callback lines 80-102: the token exchange and the profile fetch;
\* spotify_callback lines 89-143: the tokens are saved when there is a
\* result and a bot instance, the loop is closed and the page returned; a
\* save that raises is answered by the except branch, the loop left open
CompleteCallback(w, tokenResp, profileResp, saveRaises) ==
    /\ wk[w].pc = "exchange"
    /\ LET tokens == ExchangeCodeForTokens(tokenResp, now)
           user_info == GetUserInfo(profileResp)
           result == HandleCallbackResult(wk[w].discord_id, tokens, user_info)
           outcome == OutcomeOf(tokens, user_info)
       IN  IF result # NoneRec /\ bot_instance
           THEN IF saveRaises
                THEN /\ Respond(w, ExceptionStatus, TRUE, outcome, NoneRec, "open")
                     /\ UNCHANGED <<users, savedVia>>
                ELSE /\ users' = SaveUserTokens(users, result.discord_id, TokenRow(result))
                     /\ savedVia' = [savedVia EXCEPT ![result.discord_id] = wk[w].state]
                     /\ Respond(w, ResultStatus(result), TRUE, outcome, TokenRow(result),
                                "closed")
           ELSE /\ Respond(w, ResultStatus(result), TRUE, outcome, NoneRec, "closed")
                /\ UNCHANGED <<users, savedVia>>
    /\ UNCHANGED <<pending_auth, gen, consumed>>
    /\ workerFrame

---------------------------------------------------------------------------
(* handle_callback called on its own, spotify_auth.py lines 70-102: no     *)
(* other thread touches pending_auth between its lines                     *)

\* lines 82-87: the requests the call sends to the provider once the state
\* is consumed: the token request, and the profile request when the
\* exchange gave tokens
ProviderRequests(tokens) ==
    IF tokens = NoneRec \/ tokens = Raised("KeyError")
    THEN <<"POST /api/token">>
    ELSE <<"POST /api/token", "GET /v1/me">>

\* a slip: a callback with an unknown state resets the pending dictionary
HandleCallback_ResetsOnUnknown(pending, state, tokenResp, profileResp, t) ==
    IF state \notin DOMAIN pending
    THEN [ret |-> NoneRec, pending |-> EmptyDict, requests |-> <<>>]
    ELSE [ret |-> HandleCallbackResult(EntryDiscordId(pending, state),
                                       ExchangeCodeForTokens(tokenResp, t),
                                       GetUserInfo(profileResp)),
          pending |-> DictDel(pending, state),
          requests |-> ProviderRequests(ExchangeCodeForTokens(tokenResp, t))]

\* lines 73-102 as one call: what it returns (or raises), the pending
\* dictionary it leaves and the requests it sends
HandleCallback(pending, state, tokenResp, profileResp, t) ==
    IF state \notin DOMAIN pending
    THEN [ret |-> NoneRec, pending |-> pending, requests |-> <<>>]
    ELSE [ret |-> HandleCallbackResult(EntryDiscordId(pending, state),
                                       ExchangeCodeForTokens(tokenResp, t),
                                       GetUserInfo(profileResp)),
          pending |-> DictDel(pending, state),
          requests |-> ProviderRequests(ExchangeCodeForTokens(tokenResp, t))]

\* the pending dictionaries the call finds: none, one or two entries
HandlePendings ==
    { EmptyDict }
    \cup { DictSet(EmptyDict, "s1", [discord_id |-> d, timestamp |-> 0]) :
             d \in Users }
    \cup { DictSet(DictSet(EmptyDict, "s1", [discord_id |-> d, timestamp |-> 0]),
                   "s2", [discord_id |-> e, timestamp |-> 0]) :
             d \in Users, e \in Users }

HandleStates == {"s1", "s2", Forged}

hcFrame == UNCHANGED <<flowVars, rf, pl, dbVars, tables, eh, gu, af>>

\* the call returns or raises
HandleCall ==
    /\ hc.pc = "call"
    /\ LET r == HandleCallback(hc.pending, hc.state, hc.tokenResp,
                               hc.profileResp, hc.t)
       IN  hc' = [hc EXCEPT !.pc = "done", !.ret = r.ret,
                            !.pending_after = r.pending,
                            !.requests = r.requests]
    /\ hcFrame

InitHandle ==
    /\ InitFlow
    /\ rf = IdleRefresh
    /\ pl = IdlePlaylist
    /\ InitLock
    /\ tables = EmptyTables
    /\ eh = IdleHandler
    /\ gu = IdleGenerate
    /\ af = IdleFeatures
    /\ hc \in { [IdleHandle EXCEPT !.pc = "call", !.pending = p, !.state = s,
                                   !.tokenResp = tr, !.profileResp = pr] :
                  p \in HandlePendings, s \in HandleStates,
                  tr \in FlowTokenResponses, pr \in FlowProfileResponses }

NextHandle == HandleCall

SpecHandle == InitHandle /\ [][NextHandle]_vars

\* the token exchange of the call fails: a transport error, an HTTP error
\* status, or a body without access_token or without refresh_token
ExchangeFails(tr) ==
    \/ tr.kind # "ok"
    \/ tr.access_token = Absent
    \/ tr.refresh_token = Absent

\* the profile fetch of the call fails: a transport error, an HTTP error
\* status, or a body that is empty or has no id
ProfileFails(pr) ==
    \/ pr.kind # "ok"
    \/ pr.empty
    \/ pr.id = Absent

\* C11: a handle_callback call that runs alone never raises; it returns
\* None when the state is not pending or the token exchange or the profile
\* fetch fails, and else the result record for the state's discord_id
C11_HandleCallbackNeverRaises ==
    hc.pc = "done"
    => /\ hc.ret # Raised("KeyError")
       /\ ( \/ hc.state \notin DOMAIN hc.pending
            \/ ExchangeFails(hc.tokenResp)
            \/ ProfileFails(hc.profileResp) )
          => hc.ret = NoneRec
       /\ ( /\ hc.state \in DOMAIN hc.pending
            /\ ~ExchangeFails(hc.tokenResp)
            /\ ~ProfileFails(hc.profileResp) )
          => /\ hc.ret # NoneRec
             /\ hc.ret.discord_id = hc.pending[hc.state].discord_id
             /\ hc.ret.access_token = hc.tokenResp.access_token
             /\ hc.ret.refresh_token = hc.tokenResp.refresh_token
             /\ hc.ret.spotify_id = hc.profileResp.id

\* C11, its case: for a pending state the token response had no
\* refresh_token, and the call returned None and consumed the state
C11_Witness ==
    /\ hc.pc = "done"
    /\ hc.state \in DOMAIN hc.pending
    /\ hc.tokenResp.kind = "ok"
    /\ hc.tokenResp.access_token # Absent
    /\ hc.tokenResp.refresh_token = Absent
    /\ hc.ret = NoneRec
    /\ hc.state \notin DOMAIN hc.pending_after

\* C21: handle_callback with a state that is not pending returns None,
\* sends no request to the provider and leaves the pending set as it was,
\* the pending authorizations of other users included
C21_UnknownStateChangesNothing ==
    (hc.pc = "done" /\ hc.state \notin DOMAIN hc.pending)
    => /\ hc.ret = NoneRec
       /\ hc.requests = <<>>
       /\ hc.pending_after = hc.pending

\* C21, its case: two users have a pending authorization each, a callback
\* came with a state nobody was issued, and both are still pending
C21_Witness ==
    /\ hc.pc = "done"
    /\ hc.state = Forged
    /\ DOMAIN hc.pending = {"s1", "s2"}
    /\ hc.pending["s1"].discord_id # hc.pending["s2"].discord_id
    /\ hc.pending_after = hc.pending
    /\ hc.ret = NoneRec
    /\ hc.requests = <<>>

---------------------------------------------------------------------------
(* generate_auth_url called on its own, spotify_auth.py lines 44-68: no    *)
(* callback touches pending_auth during the call, and the call takes less  *)
(* than a minute                                                           *)

\* lines 46-57 as one call at time t with the fresh state: the pending
\* dictionary the call leaves
GenerateAuthUrl(pending, discord_id, state, t) ==
    Purge(DictSet(pending, state, [discord_id |-> discord_id, timestamp |-> t]),
          Cutoff(t))

\* the time of the call, and the times the entries it finds were stored
\* at: more than, exactly and less than the limit before the call, and in
\* the minute of the call
GenerateTime == MaxTime
EntryTimes ==
    {GenerateTime - ExpiryMinutes - 1, GenerateTime - ExpiryMinutes,
     GenerateTime - ExpiryMinutes + 1, GenerateTime}

\* the pending dictionaries the call finds: each of two states is absent
\* or stored for some user at some time
GeneratePendings ==
    LET Entries == [discord_id : Users, timestamp : EntryTimes]
        One(s) == {EmptyDict} \cup {DictSet(EmptyDict, s, e) : e \in Entries}
    IN  { IF "s2" \in DOMAIN q THEN DictSet(p, "s2", q["s2"]) ELSE p :
            p \in One("s1"), q \in One("s2") }

\* secrets.token_urlsafe(32): a state no entry is stored under
FreshState == "s3"

guFrame == UNCHANGED <<flowVars, rf, pl, dbVars, hc, tables, eh, af>>

\* the call returns the URL that carries the state
GenerateCall ==
    /\ gu.pc = "call"
    /\ gu' = [gu EXCEPT !.pc = "done",
                        !.after = GenerateAuthUrl(gu.pending, gu.discord_id,
                                                  gu.state, gu.t)]
    /\ guFrame

InitGenerate ==
    /\ InitFlow
    /\ rf = IdleRefresh
    /\ pl = IdlePlaylist
    /\ InitLock
    /\ hc = IdleHandle
    /\ tables = EmptyTables
    /\ eh = IdleHandler
    /\ af = IdleFeatures
    /\ gu \in { [IdleGenerate EXCEPT !.pc = "call", !.discord_id = d,
                                     !.state = FreshState, !.t = GenerateTime,
                                     !.pending = p] :
                  d \in Users, p \in GeneratePendings }

NextGenerate == GenerateCall

SpecGenerate == InitGenerate /\ [][NextGenerate]_vars

\* C19: when generate_auth_url(discord_id) returns, the pending set holds
\* the new state for discord_id, holds no entry that is 10 minutes old or
\* older (one of exactly 10 minutes is removed), and holds every entry
\* that was there before the call and is younger than 10 minutes, with the
\* same discord_id and timestamp; and nothing else
C19_SweepOnGenerate ==
    gu.pc = "done"
    => /\ gu.state \in DOMAIN gu.after
       /\ gu.after[gu.state].discord_id = gu.discord_id
       /\ \A k \in DOMAIN gu.after : gu.t - gu.after[k].timestamp < 10
       /\ \A k \in DOMAIN gu.pending :
             gu.t - gu.pending[k].timestamp < 10
             => k \in DOMAIN gu.after /\ gu.after[k] = gu.pending[k]
       /\ DOMAIN gu.after \subseteq DOMAIN gu.pending \cup {gu.state}

\* C19, its case: of two entries the call found, the one exactly 10
\* minutes old is gone and the one 9 minutes old is kept
C19_Witness ==
    /\ gu.pc = "done"
    /\ "s1" \in DOMAIN gu.pending /\ gu.t - gu.pending["s1"].timestamp = 10
    /\ "s2" \in DOMAIN gu.pending /\ gu.t - gu.pending["s2"].timestamp = 9
    /\ "s1" \notin DOMAIN gu.after
    /\ "s2" \in DOMAIN gu.after
    /\ gu.state \in DOMAIN gu.after

---------------------------------------------------------------------------
(* refresh_token, spotify_auth.py lines 160-197 *)

\* a slip: the refresh token is read like the access token, so a response
\* without one raises
RefreshToken_RequiresNew(old, resp, t) ==
    IF resp.kind # "ok" THEN NoneRec
    ELSE IF resp.access_token = Absent \/ resp.refresh_token = Absent
         THEN Raised("KeyError")
    ELSE [access_token |-> resp.access_token,
          refresh_token |-> resp.refresh_token,
          expires_at |-> ExpiresAt(resp, t)]

\* lines 179-197: None on a RequestException; a KeyError, which the except
\* clause does not catch, when the response has no access_token; else the
\* record, with the old refresh token when the response has none
RefreshToken(old, resp, t) ==
    IF resp.kind # "ok" THEN NoneRec
    ELSE IF resp.access_token = Absent THEN Raised("KeyError")
    ELSE [access_token |-> resp.access_token,
          refresh_token |-> IF resp.refresh_token = Absent THEN old
                            ELSE resp.refresh_token,
          expires_at |-> ExpiresAt(resp, t)]

\* the provider's answers to a refresh: a failure, or a token response
\* with or without each key (a refresh token may also be JSON null)
RefreshResponses ==
    { TokenResp("transport_error", Absent, Absent, <<>>),
      TokenResp("http_error", Absent, Absent, <<>>) }
    \cup { TokenResp("ok", at, rt, ei) :
             at \in {Absent, "at1", "at2"},
             rt \in {Absent, None, "rt1", "rt2"},
             ei \in {<<>>, <<0>>, <<TickStep>>} }

OldRefreshTokens == {"rt1", "rt0"}

rfFrame == UNCHANGED <<flowVars, pl, dbVars, unitVars>>

\* the call returns or raises
RefreshCall ==
    /\ rf.pc = "call"
    /\ rf' = [rf EXCEPT !.pc = "done",
                        !.result = RefreshToken(rf.old, rf.resp, rf.t)]
    /\ rfFrame

InitRefresh ==
    /\ InitFlow
    /\ pl = IdlePlaylist
    /\ InitLock
    /\ InitUnits
    /\ rf \in { [pc |-> "call", old |-> o, resp |-> r, t |-> t, result |-> NoneRec] :
                  o \in OldRefreshTokens, r \in RefreshResponses,
                  t \in {0, TickStep} }

NextRefresh == RefreshCall

SpecRefresh == InitRefresh /\ [][NextRefresh]_vars

\* C4: on a successful provider response refresh_token returns the access
\* token of the response, and as the refresh token the one of the response
\* when it has one and the old one when it has none
C4_RefreshKeepsOldToken ==
    (rf.pc = "done" /\ rf.resp.kind = "ok" /\ rf.resp.access_token # Absent)
    => /\ rf.result # NoneRec
       /\ rf.result # Raised("KeyError")
       /\ rf.result.access_token = rf.resp.access_token
       /\ rf.resp.refresh_token # Absent
             => rf.result.refresh_token = rf.resp.refresh_token
       /\ rf.resp.refresh_token = Absent
             => rf.result.refresh_token = rf.old

\* C4, its case: the response had no refresh token and the call returned
\* the old one, different from every token the provider issues anew
C4_Witness ==
    /\ rf.pc = "done"
    /\ rf.resp.kind = "ok"
    /\ rf.resp.access_token = "at2"
    /\ rf.resp.refresh_token = Absent
    /\ rf.old = "rt0"
    /\ rf.result.refresh_token = "rt0"

\* C12: refresh_token never raises: for every provider outcome that is not
\* a complete token body, a successful response without access_token
\* included, it returns None
C12_RefreshNeverRaises ==
    rf.pc = "done"
    => /\ rf.result # Raised("KeyError")
       /\ (rf.resp.kind # "ok" \/ rf.resp.access_token = Absent)
          => rf.result = NoneRec

---------------------------------------------------------------------------
(* create_playlist, spotify_auth.py lines 259-286 *)

Min(a, b) == IF a < b THEN a ELSE b

\* a slip: the slice runs one item too far
Batch_OneTooMany(track_uris, i) ==
    SubSeq(track_uris, i + 1, Min(i + BatchSize + 1, Len(track_uris)))

\* line 279: track_uris[i:i+100], i counted from 0
Batch(track_uris, i) ==
    SubSeq(track_uris, i + 1, Min(i + BatchSize, Len(track_uris)))

\* the input lists: n distinct URIs, so that an item out of place shows
TrackUris(n) == [k \in 1..n |-> k]

plFrame == UNCHANGED <<flowVars, rf, dbVars, unitVars>>

\* lines 262-276: the client, user_playlist_create, the test of the list
CreatePlaylist(outcome) ==
    /\ pl.pc = "create"
    /\ pl' = IF outcome # "ok"
             THEN [pl EXCEPT !.pc = "done", !.result = None]
             ELSE IF pl.track_uris = <<>>
             THEN [pl EXCEPT !.pc = "done", !.created = TRUE, !.result = "playlist"]
             ELSE [pl EXCEPT !.pc = "add", !.created = TRUE, !.i = 0]
    /\ plFrame

\* compensation: the handler removes the half-filled playlist again
AddFailed_RollsBack(p, batch) ==
    [p EXCEPT !.pc = "done", !.result = None,
              !.requests = Append(@, batch),
              !.failed_at = Len(p.requests) + 1,
              !.created = FALSE, !.items = <<>>, !.rollbacks = @ + 1]

\* lines 280 and 284-286: playlist_add_items raises, the provider has not
\* added the batch; the except branch logs and returns None, and sends
\* nothing more.  failed_at: the number of the request that failed
AddFailed(p, batch) ==
    [p EXCEPT !.pc = "done", !.result = None,
              !.requests = Append(@, batch),
              !.failed_at = Len(p.requests) + 1]

\* lines 278-286: one turn of the loop; playlist_add_items raises or adds
\* the batch to the playlist; after the last batch the playlist is returned
AddBatch(ok) ==
    /\ pl.pc = "add"
    /\ LET batch == Batch(pl.track_uris, pl.i)
           i2 == pl.i + BatchSize
       IN  pl' = IF ~ok
                 THEN AddFailed(pl, batch)
                 ELSE [pl EXCEPT !.pc = IF i2 < Len(pl.track_uris) THEN "add" ELSE "done",
                                 !.i = i2,
                                 !.requests = Append(@, batch),
                                 !.items = @ \o batch,
                                 !.result = IF i2 < Len(pl.track_uris) THEN None
                                            ELSE "playlist"]
    /\ plFrame

InitPlaylist ==
    /\ InitFlow
    /\ rf = IdleRefresh
    /\ InitLock
    /\ InitUnits
    /\ pl \in { [IdlePlaylist EXCEPT !.pc = "create", !.track_uris = TrackUris(n)] :
                  n \in 0..MaxTracks }

NextPlaylist ==
    \/ \E outcome \in {"ok", "no_client", "create_raises"} : CreatePlaylist(outcome)
    \/ \E ok \in BOOLEAN : AddBatch(ok)

SpecPlaylist == InitPlaylist /\ [][NextPlaylist]_vars

RECURSIVE Concat(_)
Concat(batches) ==
    IF batches = <<>> THEN <<>> ELSE Head(batches) \o Concat(Tail(batches))

\* the least number of batches of BatchSize that hold n items
CeilDiv(n, b) == (n + b - 1) \div b

\* C5: create_playlist adds the tracks in batches of 100 whatever the size
\* n of the list: the k-th add request carries the items 100(k-1)+1 ..
\* min(100k, n) of the list, so at most 100 and at least one; there are
\* never more than ceil(n/100) requests; and a call that returns the
\* playlist (no request failed) has sent exactly ceil(n/100) of them (none
\* for n = 0), all but the last of exactly 100 items, which in request
\* order make up the input list
C5_BatchesOf100 ==
    LET n == Len(pl.track_uris)
        m == Len(pl.requests)
    IN  /\ m <= CeilDiv(n, 100)
        /\ \A k \in 1..m :
              /\ pl.requests[k] = SubSeq(pl.track_uris, 100 * (k - 1) + 1,
                                         IF 100 * k < n THEN 100 * k ELSE n)
              /\ Len(pl.requests[k]) <= 100
              /\ Len(pl.requests[k]) >= 1
        /\ (pl.pc = "done" /\ pl.result = "playlist")
           => /\ m = CeilDiv(n, 100)
              /\ \A k \in 1..(m - 1) : Len(pl.requests[k]) = 100
              /\ Concat(pl.requests) = pl.track_uris
              /\ pl.items = pl.track_uris

\* C5, its case: a list of more than 200 items went out in three requests,
\* the last one short
C5_Witness ==
    /\ pl.pc = "done"
    /\ pl.result = "playlist"
    /\ Len(pl.track_uris) > 200
    /\ Len(pl.requests) = 3
    /\ Len(pl.requests[3]) < 100

\* C14: when the playlist was created and the k-th add request fails,
\* create_playlist returns None, the failed request is the last request it
\* sends, it sends no request that removes the playlist, and the playlist
\* stays on the provider with exactly the first k-1 batches
C14_NoCompensation ==
    pl.failed_at > 0
    => /\ pl.pc = "done"
       /\ pl.result = None
       /\ Len(pl.requests) = pl.failed_at
       /\ pl.rollbacks = 0
       /\ pl.created
       /\ pl.items = SubSeq(pl.track_uris, 1, 100 * (pl.failed_at - 1))
       /\ pl.items = Concat(SubSeq(pl.requests, 1, pl.failed_at - 1))

\* C14, its case: the third request failed and the playlist is left with
\* the 200 items of the first two
C14_Witness ==
    /\ pl.pc = "done"
    /\ pl.failed_at = 3
    /\ pl.result = None
    /\ pl.created
    /\ Len(pl.items) = 200

---------------------------------------------------------------------------
(* get_audio_features, spotify_auth.py lines 241-257 *)

\* the features the provider holds for a track
FeatureOf(track_id) == [id |-> track_id]

\* line 252: client.audio_features(batch) when the request succeeds, one
\* entry per id of the batch, in the order of the batch
AudioFeatures(batch) == [k \in 1..Len(batch) |-> FeatureOf(batch[k])]

\* the input lists: n distinct track ids, so that an item out of place
\* shows
TrackIdList(n) == [k \in 1..n |-> k]

afFrame == UNCHANGED <<flowVars, rf, pl, dbVars, hc, tables, eh, gu>>

\* lines 243-250: the client, the empty list, the first turn of the loop;
\* with no ids the loop body never runs and the empty list is returned
GetClient(outcome) ==
    /\ af.pc = "client"
    /\ af' = IF outcome # "ok"
             THEN [af EXCEPT !.pc = "done", !.result = NoFeatures]
             ELSE IF af.track_ids = <<>>
             THEN [af EXCEPT !.pc = "done", !.result = FeatureList(<<>>)]
             ELSE [af EXCEPT !.pc = "batch", !.i = 0]
    /\ afFrame

\* a slip: the except branch returns what was gathered so far
FeaturesFailed_ReturnsPartial(a, batch) ==
    [a EXCEPT !.pc = "done", !.result = FeatureList(a.all_features),
              !.requests = Append(@, batch),
              !.failed_at = Len(a.requests) + 1]

\* lines 252 and 255-257: audio_features raises; the except branch logs
\* and returns None
FeaturesFailed(a, batch) ==
    [a EXCEPT !.pc = "done", !.result = NoFeatures,
              !.requests = Append(@, batch),
              !.failed_at = Len(a.requests) + 1]

\* lines 250-257: one turn of the loop; the slice is the one of
\* create_playlist (track_ids[i:i+100]); audio_features raises, or its
\* result is appended to all_features; after the last batch all_features
\* is returned
FeaturesBatch(ok) ==
    /\ af.pc = "batch"
    /\ LET batch == Batch(af.track_ids, af.i)
           features == AudioFeatures(batch)
           i2 == af.i + BatchSize
           all == af.all_features \o features
       IN  af' = IF ~ok
                 THEN FeaturesFailed(af, batch)
                 ELSE [af EXCEPT !.pc = IF i2 < Len(af.track_ids) THEN "batch"
                                        ELSE "done",
                                 !.i = i2,
                                 !.requests = Append(@, batch),
                                 !.responses = Append(@, features),
                                 !.all_features = all,
                                 !.result = IF i2 < Len(af.track_ids)
                                            THEN NoFeatures
                                            ELSE FeatureList(all)]
    /\ afFrame

InitFeatures ==
    /\ InitFlow
    /\ rf = IdleRefresh
    /\ pl = IdlePlaylist
    /\ InitLock
    /\ hc = IdleHandle
    /\ tables = EmptyTables
    /\ eh = IdleHandler
    /\ gu = IdleGenerate
    /\ af \in { [IdleFeatures EXCEPT !.pc = "client", !.track_ids = TrackIdList(n)] :
                  n \in 0..MaxTracks }

NextFeatures ==
    \/ \E outcome \in {"ok", "no_client"} : GetClient(outcome)
    \/ \E ok \in BOOLEAN : FeaturesBatch(ok)

SpecFeatures == InitFeatures /\ [][NextFeatures]_vars

\* C24: get_audio_features asks for the features in batches of at most 100
\* track ids whatever the size n of the list: the k-th request carries the
\* ids 100(k-1)+1 .. min(100k, n), at least one; a call in which no request
\* failed returns the results of its ceil(n/100) requests concatenated,
\* which is one entry per id in input order (the empty list for n = 0);
\* a call in which a request failed returns None, not the features
\* gathered before
C24_BatchedFeaturesOrNone ==
    LET n == Len(af.track_ids)
        m == Len(af.requests)
    IN  /\ m <= CeilDiv(n, 100)
        /\ \A k \in 1..m :
              /\ af.requests[k] = SubSeq(af.track_ids, 100 * (k - 1) + 1,
                                         IF 100 * k < n THEN 100 * k ELSE n)
              /\ Len(af.requests[k]) <= 100
              /\ Len(af.requests[k]) >= 1
        /\ (af.pc = "done" /\ af.failed_at = 0 /\ af.i > 0)
           => /\ m = CeilDiv(n, 100)
              /\ af.result = FeatureList(Concat(af.responses))
              /\ Len(af.result.value) = n
              /\ \A k \in 1..n : af.result.value[k] = FeatureOf(af.track_ids[k])
        /\ (af.pc = "done" /\ af.result.returned = "list" /\ n = 0)
           => af.result.value = <<>> /\ m = 0
        /\ af.failed_at > 0
           => /\ af.pc = "done"
              /\ af.result = NoFeatures
              /\ Len(af.requests) = af.failed_at

\* C24, its case: the features of more than 200 tracks came back from
\* three requests, the last one short, and are returned in input order
C24_Witness ==
    /\ af.pc = "done"
    /\ Len(af.track_ids) > 200
    /\ Len(af.requests) = 3
    /\ Len(af.requests[3]) < 100
    /\ af.failed_at = 0
    /\ af.result.returned = "list"
    /\ Len(af.result.value) = Len(af.track_ids)
    /\ af.result.value[201] = FeatureOf(af.track_ids[201])

---------------------------------------------------------------------------
(* DatabaseManager: the lock around every storage call, database.py lines  *)
(* 15-18 and 107-112 (and alike at 133, 160, 190, 221, 248, 267)           *)
(*                                                                         *)
(* The lock is an asyncio.Lock.  The daemon's coroutines run on one event  *)
(* loop, on one thread: between two awaits nothing of that loop            *)
(* interleaves.  A callback runs its storage call on its own loop on a     *)
(* worker thread.  asyncio.Lock is not thread-safe: acquire() reads        *)
(* _locked and then writes it, and another thread can run in between.      *)

\* the tasks of x's loop that are between the test and the write of
\* Lock.acquire: no await lies between the two, so nothing else of that
\* loop runs then
MidStep(x) ==
    {y \in Tasks \ {x} : LoopOf(y) = LoopOf(x) /\ taskpc[y] = "tested"}

lockFrame == UNCHANGED <<flowVars, rf, pl, unitVars>>

\* a storage method (save_user_tokens, get_user_tokens, ...) is called
CallStorage(x) ==
    /\ taskpc[x] = "idle"
    /\ MidStep(x) = {}
    /\ taskpc' = [taskpc EXCEPT ![x] = "acquire"]
    /\ UNCHANGED <<lock_locked, lock_waiters, executing>>
    /\ lockFrame

\* "async with self._lock", Lock.acquire: the test of _locked and of the
\* waiters.  A free lock is taken by the next step; a held one makes the
\* task wait on a future, which raises RuntimeError when the future or the
\* lock belongs to another loop than the task's
TestLock(x, raises) ==
    /\ taskpc[x] = "acquire"
    /\ MidStep(x) = {}
    /\ IF ~lock_locked /\ lock_waiters = <<>>
       THEN /\ taskpc' = [taskpc EXCEPT ![x] = "tested"]
            /\ UNCHANGED lock_waiters
       ELSE IF raises
       THEN /\ taskpc' = [taskpc EXCEPT ![x] = "idle"]
            /\ UNCHANGED lock_waiters
       ELSE /\ taskpc' = [taskpc EXCEPT ![x] = "waiting"]
            /\ lock_waiters' = Append(lock_waiters, x)
    /\ UNCHANGED <<lock_locked, executing>>
    /\ lockFrame

\* Lock.acquire: self._locked = True, by a task that found the lock free or
\* was woken; then run_in_executor starts the storage operation
SetLock(x) ==
    /\ \/ taskpc[x] = "tested"
       \/ taskpc[x] = "woken" /\ MidStep(x) = {}
    /\ lock_locked' = TRUE
    /\ lock_waiters' = SelectSeq(lock_waiters, LAMBDA y : y # x)
    /\ executing' = executing \cup {x}
    /\ taskpc' = [taskpc EXCEPT ![x] = "running"]
    /\ lockFrame

\* the storage operation ends and the task leaves the "async with":
\* Lock.release clears _locked and wakes the first waiter (it raises when
\* the lock is not held, which changes nothing here)
ReleaseLock(x) ==
    /\ taskpc[x] = "running"
    /\ MidStep(x) = {}
    /\ executing' = executing \ {x}
    /\ lock_locked' = FALSE
    /\ taskpc' = [y \in Tasks |->
                    IF y = x THEN "idle"
                    ELSE IF lock_locked /\ lock_waiters # <<>> /\ y = Head(lock_waiters)
                            /\ taskpc[y] = "waiting"
                         THEN "woken"
                    ELSE taskpc[y]]
    /\ UNCHANGED lock_waiters
    /\ lockFrame

NextLock ==
    \/ \E x \in Tasks : CallStorage(x)
    \/ \E x \in Tasks, raises \in BOOLEAN : TestLock(x, raises)
    \/ \E x \in Tasks : SetLock(x)
    \/ \E x \in Tasks : ReleaseLock(x)

SpecLock == Init /\ [][NextLock]_vars

\* C6: all access to the store is serialized: no two storage operations
\* execute at once, also not one of the daemon's loop and one of a
\* callback worker thread
C6_StorageSerialized == Cardinality(executing) <= 1

---------------------------------------------------------------------------
(* DatabaseManager: the tables, database.py lines 27-105, and the storage  *)
(* methods on them, called one after the other                             *)

TrackIds == {"t1", "t2"}
ArtistIds == {"a1"}
Commands == {"recommend"}

\* the spotify_data a save_user_tokens call is given
StoreTokenData ==
    [spotify_id |-> "sp1", access_token |-> "at1", refresh_token |-> "rt1",
     expires_at |-> DefaultExpiresIn]

\* the spotify_data of a later authorization of the same account
StoreTokenDataRenewed ==
    [spotify_id |-> "sp1", access_token |-> "at2", refresh_token |-> "rt2",
     expires_at |-> 2 * DefaultExpiresIn]

StoreTokenDatas == {StoreTokenData, StoreTokenDataRenewed}

\* the users row written from a spotify_data, lines 118-128
UserRow(discord_id, spotify_data) ==
    [discord_id |-> discord_id,
     spotify_id |-> spotify_data.spotify_id,
     access_token |-> spotify_data.access_token,
     refresh_token |-> spotify_data.refresh_token,
     expires_at |-> spotify_data.expires_at]

\* a slip: a plain INSERT into a table without the key, the row that
\* exists stays next to the new one
SaveUserTokensSync_Insert(rows, discord_id, spotify_data) ==
    rows \cup {UserRow(discord_id, spotify_data)}

\* _save_user_tokens_sync, lines 114-131, on the rows of users: INSERT OR
\* REPLACE removes the row that has the same primary key (lines 33-35)
SaveUserTokensSync(rows, discord_id, spotify_data) ==
    {r \in rows : r.discord_id # discord_id}
        \cup {UserRow(discord_id, spotify_data)}

\* _get_user_tokens_sync, lines 140-158: SELECT ... WHERE discord_id = ?
\* and fetchone; the four columns of the row, or None
GetUserTokens(tbl, discord_id) ==
    LET found == {r \in tbl.users : r.discord_id = discord_id}
    IN  IF found = {} THEN NoneRec
        ELSE LET row == CHOOSE r \in found : TRUE
             IN  [spotify_id |-> row.spotify_id,
                  access_token |-> row.access_token,
                  refresh_token |-> row.refresh_token,
                  expires_at |-> row.expires_at]

\* _save_user_tracks_sync, lines 167-188: INSERT OR REPLACE per track
SaveUserTracks(tbl, discord_id, tracks) ==
    [tbl EXCEPT !.user_tracks = @ \cup {<<discord_id, x>> : x \in tracks}]

\* _save_user_artists_sync, lines 228-246: INSERT OR REPLACE per artist
SaveUserArtists(tbl, discord_id, artists) ==
    [tbl EXCEPT !.user_artists = @ \cup {<<discord_id, x>> : x \in artists}]

\* _log_command_sync, lines 276-288: INSERT INTO command_logs
LogCommand(tbl, discord_id, command_name) ==
    [tbl EXCEPT !.command_logs = Append(@, <<discord_id, command_name>>)]

\* _delete_user_data_sync, lines 255-265: DELETE ... WHERE discord_id = ?
\* from users, user_tracks, user_artists and playlists
DeleteUserData(tbl, discord_id) ==
    [tbl EXCEPT !.users = {r \in @ : r.discord_id # discord_id},
                !.user_tracks = {r \in @ : r[1] # discord_id},
                !.user_artists = {r \in @ : r[1] # discord_id},
                !.playlists = {r \in @ : r[1] # discord_id}]

storeFrame == UNCHANGED <<flowVars, rf, pl, dbVars, hc, eh, gu, af>>

Called(tbl, method, discord_id) == [tbl EXCEPT !.last = <<method, discord_id>>]

\* the record of the calls made: what the last save_user_tokens of the
\* user was given, None after a delete_user_data
Latest(tbl, discord_id, spotify_data) ==
    [tbl EXCEPT !.latest[discord_id] = spotify_data]

StoreSaveUserTokens(d, spotify_data) ==
    /\ tables' = Latest(Called([tables EXCEPT
                                   !.users = SaveUserTokensSync(@, d, spotify_data)],
                               "save_user_tokens", d),
                        d, spotify_data)
    /\ storeFrame

StoreSaveUserTracks(d, tracks) ==
    /\ tables' = Called(SaveUserTracks(tables, d, tracks), "save_user_tracks", d)
    /\ storeFrame

StoreSaveUserArtists(d, artists) ==
    /\ tables' = Called(SaveUserArtists(tables, d, artists), "save_user_artists", d)
    /\ storeFrame

StoreLogCommand(d, command_name) ==
    /\ Len(tables.command_logs) < MaxLogs
    /\ tables' = Called(LogCommand(tables, d, command_name), "log_command", d)
    /\ storeFrame

StoreDeleteUserData(d) ==
    /\ tables' = Latest(Called(DeleteUserData(tables, d), "delete_user_data", d),
                        d, NoneRec)
    /\ storeFrame

NextStore ==
    \/ \E d \in Users, data \in StoreTokenDatas : StoreSaveUserTokens(d, data)
    \/ \E d \in Users, tracks \in SUBSET TrackIds : StoreSaveUserTracks(d, tracks)
    \/ \E d \in Users, artists \in SUBSET ArtistIds : StoreSaveUserArtists(d, artists)
    \/ \E d \in Users, c \in Commands : StoreLogCommand(d, c)
    \/ \E d \in Users : StoreDeleteUserData(d)

SpecStore == Init /\ [][NextStore]_vars

\* everything the store holds for a user
RowsOf(tbl, d) ==
    [users |-> GetUserTokens(tbl, d),
     user_tracks |-> {r \in tbl.user_tracks : r[1] = d},
     user_artists |-> {r \in tbl.user_artists : r[1] = d},
     playlists |-> {r \in tbl.playlists : r[1] = d},
     command_logs |-> SelectSeq(tbl.command_logs, LAMBDA r : r[1] = d)]

NoRows ==
    [users |-> NoneRec, user_tracks |-> {}, user_artists |-> {},
     playlists |-> {}, command_logs |-> <<>>]

\* C13: after delete_user_data(d) no row of any table refers to d:
\* get_user_tokens(d) is None and d has no tracks, artists, playlists or
\* command-log rows; the rows of every other user are as before
C13_DeleteRemovesAllRows ==
    [][ \A d \in Users :
          tables'.last = <<"delete_user_data", d>>
          => /\ RowsOf(tables', d) = NoRows
             /\ \A e \in Users \ {d} : RowsOf(tables', e) = RowsOf(tables, e) ]_vars

\* C22: after any sequence of storage calls the users table holds at
\* most one row per discord_id, and get_user_tokens(d) returns the four
\* fields of the latest save_user_tokens(d, ...) that no delete_user_data(d)
\* followed, or None when there is none; a save_user_tokens for one user
\* leaves what get_user_tokens returns for every other user as it was
C22_GetReturnsLatestSave ==
    [][ /\ \A d \in Users :
             /\ Cardinality({r \in tables'.users : r.discord_id = d}) <= 1
             /\ GetUserTokens(tables', d) = tables'.latest[d]
        /\ \A d \in Users :
             tables'.last = <<"save_user_tokens", d>>
             => \A e \in Users \ {d} :
                   GetUserTokens(tables', e) = GetUserTokens(tables, e) ]_vars

\* user 1 has saved again after an earlier save: the store returns the
\* renewed tokens for user 1 and still the first tokens for user 2
C22_Witness ==
    /\ tables.last = <<"save_user_tokens", 1>>
    /\ tables.latest[1] = StoreTokenDataRenewed
    /\ GetUserTokens(tables, 1) = StoreTokenDataRenewed
    /\ Cardinality({r \in tables.users : r.discord_id = 1}) = 1
    /\ GetUserTokens(tables, 2) = StoreTokenData

---------------------------------------------------------------------------
(* MusicBot.on_command_error, bot.py lines 101-115 *)

\* the command errors the library hands to the handler
CommandNotFound == "CommandNotFound"
CommandErrors ==
    {CommandNotFound, "MissingRequiredArgument", "CheckFailure",
     "CommandInvokeError"}

\* a slip: the test of the interaction response is left out
SendsResponse_Always(interaction, is_done) == interaction

\* lines 108-113: the message goes to the interaction response when the
\* command is an interaction whose response is not done yet
SendsResponse(interaction, is_done) == interaction /\ ~is_done

\* line 115: the message goes to the channel when there is no interaction
SendsChannel(interaction) == ~interaction

ehFrame == UNCHANGED <<flowVars, rf, pl, dbVars, hc, tables, gu, af>>

\* the library calls on_command_error(ctx, error); ctx.interaction is set
\* or not, and when set its response is done already or not
ErrorRaised(error, interaction, is_done) ==
    /\ eh.pc \in {"idle", "returned"}
    /\ eh.ncalls < MaxErrors
    /\ eh' = [IdleHandler EXCEPT !.pc = "entered", !.error = error,
                                 !.interaction = interaction,
                                 !.is_done = interaction /\ is_done,
                                 !.ncalls = eh.ncalls + 1]
    /\ ehFrame

\* lines 103-106: return on CommandNotFound, else log the error
HandlerLog ==
    /\ eh.pc = "entered"
    /\ eh' = IF eh.error = CommandNotFound
             THEN [eh EXCEPT !.pc = "returned"]
             ELSE [eh EXCEPT !.pc = "logged", !.logged = @ + 1]
    /\ ehFrame

\* lines 108-115: the one send of the handler, then it returns
HandlerSend ==
    /\ eh.pc = "logged"
    /\ eh' = [eh EXCEPT
                !.pc = "returned",
                !.sent_response = IF SendsResponse(eh.interaction, eh.is_done)
                                  THEN @ + 1 ELSE @,
                !.sent_channel = IF SendsChannel(eh.interaction)
                                 THEN @ + 1 ELSE @]
    /\ ehFrame

NextHandler ==
    \/ \E error \in CommandErrors, interaction \in BOOLEAN, is_done \in BOOLEAN :
          ErrorRaised(error, interaction, is_done)
    \/ HandlerLog
    \/ HandlerSend

SpecHandler == Init /\ [][NextHandler]_vars

\* C15: for a command-not-found error the handler logs nothing and sends
\* nothing; for any other error it has logged once and, when it returns,
\* has sent the message exactly once to the channel of a command that is
\* no interaction, exactly once to the response of an interaction whose
\* response was not done, and not at all when that response was done
C15_GenericMessageAtMostOnce ==
    /\ eh.sent_response + eh.sent_channel <= 1
    /\ eh.error = CommandNotFound
       => eh.logged = 0 /\ eh.sent_response = 0 /\ eh.sent_channel = 0
    /\ (eh.pc = "returned" /\ eh.error # CommandNotFound)
       => /\ eh.logged = 1
          /\ ~eh.interaction => eh.sent_channel = 1 /\ eh.sent_response = 0
          /\ (eh.interaction /\ ~eh.is_done)
                => eh.sent_response = 1 /\ eh.sent_channel = 0
          /\ (eh.interaction /\ eh.is_done)
                => eh.sent_response = 0 /\ eh.sent_channel = 0

\* C15, its case: an error of an interaction whose response was done
\* already was logged and nothing was sent
C15_Witness ==
    /\ eh.pc = "returned"
    /\ eh.error = "CommandInvokeError"
    /\ eh.interaction /\ eh.is_done
    /\ eh.logged = 1
    /\ eh.sent_response = 0 /\ eh.sent_channel = 0

---------------------------------------------------------------------------
(* The account-linking flow: the startup, the daemon's generate_auth_url   *)
(* calls, the clock, and on the worker threads the callbacks the provider  *)
(* redirects to after a grant                                              *)

Next ==
    \/ KeepAlive
    \/ SetSpotifyAuth
    \/ SetBotInstance
    \/ LoadCogs
    \/ Tick
    \/ \E d \in Users : GenInsert(d)
    \/ GenEndSweep
    \/ GenAssign
    \/ \E w \in Workers, code \in GrantCodes, state \in GrantStates,
          error \in GrantErrors : Request(w, code, state, error)
    \/ \E w \in Workers : ReadDiscordId(w)
    \/ \E w \in Workers : DeleteState(w)
    \/ \E w \in Workers, tr \in FlowTokenResponses, pr \in FlowProfileResponses,
          saveRaises \in BOOLEAN : CompleteCallback(w, tr, pr, saveRaises)

Spec == Init /\ [][Next]_vars

---------------------------------------------------------------------------
(* The callback endpoint under any request: every combination of the       *)
(* parameters code, state and error, at every point of the startup and     *)
(* of the flow, one request at a time                                      *)

FirstWorker == CHOOSE w \in Workers : \A v \in Workers : w <= v

NextParams ==
    \/ KeepAlive
    \/ SetSpotifyAuth
    \/ SetBotInstance
    \/ LoadCogs
    \/ \E d \in Users : GenInsert(d)
    \/ GenEndSweep
    \/ GenAssign
    \/ \E code \in CodeParams, state \in StateParams, error \in ErrorParams :
          Request(FirstWorker, code, state, error)
    \/ ReadDiscordId(FirstWorker)
    \/ DeleteState(FirstWorker)
    \/ \E tr \in FlowTokenResponses, pr \in FlowProfileResponses,
          saveRaises \in BOOLEAN :
          CompleteCallback(FirstWorker, tr, pr, saveRaises)

SpecParams == Init /\ [][NextParams]_vars

---------------------------------------------------------------------------
(* The callbacks on the worker threads while the daemon is not inside      *)
(* generate_auth_url: a URL is generated only while no callback is being   *)
(* handled, and requests arrive only between generate_auth_url calls; the  *)
(* steps of the workers interleave in every way                            *)

NoCallbackRunning == \A w \in Workers : wk[w].pc = "idle"

QuietGenInsert(d) == NoCallbackRunning /\ GenInsert(d)

QuietRequest(w, code, state, error) ==
    gen.pc = "idle" /\ Request(w, code, state, error)

NextWorkers ==
    \/ KeepAlive
    \/ SetSpotifyAuth
    \/ SetBotInstance
    \/ LoadCogs
    \/ Tick
    \/ \E d \in Users : QuietGenInsert(d)
    \/ GenEndSweep
    \/ GenAssign
    \/ \E w \in Workers, code \in GrantCodes, state \in GrantStates,
          error \in GrantErrors : QuietRequest(w, code, state, error)
    \/ \E w \in Workers : ReadDiscordId(w)
    \/ \E w \in Workers : DeleteState(w)
    \/ \E w \in Workers, tr \in FlowTokenResponses, pr \in FlowProfileResponses,
          saveRaises \in BOOLEAN : CompleteCallback(w, tr, pr, saveRaises)

SpecWorkers == Init /\ [][NextWorkers]_vars

---------------------------------------------------------------------------
(* Properties of the flow *)

\* the last step returned a response
Responded == lastResp.status # 0

\* C1: an authorization state is single-use: a state handle_callback has
\* consumed is not in the pending set any more, and no later
\* handle_callback for it gets past the membership test
C1_StateSingleUse ==
    /\ \A s \in consumed : s \notin DOMAIN pending_auth
    /\ \A w \in Workers : ~wk[w].reused

\* C2: a callback that presents a state whose pending authorization is
\* more than 10 minutes old fails as an invalid state: it does not get
\* past the membership test of handle_callback
C2_ExpiredStateRejected ==
    \A w \in Workers : wk[w].pc # "idle" => ~wk[w].expired

\* C3: a user's row of tokens was written by a callback that presented a
\* state generate_auth_url issued for that user, and for no other user
C3_TokensKeyedByIssuer ==
    \A d \in Users :
        users[d] # NoneRec => savedVia[d] \in States /\ issuer[savedVia[d]] = d

\* C3, its case: two users each authorized and each has a row
C3_Witness ==
    /\ \A d \in Users : users[d] # NoneRec
    /\ \E d, e \in Users : savedVia[d] # savedVia[e]

\* C7 as stated: a request that carries an error parameter, or lacks the
\* code or the state parameter, is answered 400 and changes neither the
\* pending set nor the stored tokens
C7_ErrorOrMissingIs400 ==
    [][ ( /\ lastResp'.status # 0
          /\ \/ lastResp'.error # None
             \/ lastResp'.code = None
             \/ lastResp'.state = None )
        => ( /\ lastResp'.status = 400
             /\ UNCHANGED <<pending_auth, users>> ) ]_vars

\* C7 amended: a request that carries a non-empty error parameter, or
\* whose code or state parameter is missing or empty, is answered 400
\* whether or not the auth manager is set, and changes neither the pending
\* set nor the stored tokens
C7_TruthyErrorOrNoCodeIs400 ==
    [][ ( /\ lastResp'.status # 0
          /\ \/ Truthy(lastResp'.error)
             \/ ~Truthy(lastResp'.code)
             \/ ~Truthy(lastResp'.state) )
        => ( /\ lastResp'.status = 400
             /\ UNCHANGED <<pending_auth, users>> ) ]_vars

\* C7, its case: with the auth manager set, a request that carries an
\* error and a pending state got 400 and the state is still pending
C7_Witness ==
    /\ lastResp.status = 400
    /\ lastResp.authSet
    /\ Truthy(lastResp.error)
    /\ lastResp.state \in DOMAIN pending_auth

\* C8: a request with code and state whose state is not a pending
\* authorization is answered 400
C8_UnknownStateIs400 ==
    (lastResp.called /\ ~lastResp.wasPending) => lastResp.status = 400

\* C9 as stated: a request with code and state present and no error
\* parameter, handled before set_spotify_auth, is answered 503
C9_BeforeAuthIs503 ==
    ( /\ Responded
      /\ lastResp.code # None /\ lastResp.state # None
      /\ lastResp.error = None
      /\ ~lastResp.authSet )
    => lastResp.status = 503

\* C9 amended: a request with a non-empty code and a non-empty state and
\* no error parameter or an empty one, handled before set_spotify_auth, is
\* answered 503
C9_TruthyBeforeAuthIs503 ==
    ( /\ Responded
      /\ Truthy(lastResp.code) /\ Truthy(lastResp.state)
      /\ ~Truthy(lastResp.error)
      /\ ~lastResp.authSet )
    => lastResp.status = 503

\* C9, its case: the server answers 503 while the bot is not created
C9_Witness ==
    /\ lastResp.status = 503
    /\ mainpc = "serving"
    /\ lastResp.code = "c1" /\ lastResp.state = Forged /\ lastResp.error = None

\* C10: when the state was pending and the token exchange or the profile
\* fetch fails, the callback is answered 500 and the step writes no row
C10_ProviderFailureIs500 ==
    [][ ( /\ lastResp'.status # 0
          /\ lastResp'.wasPending
          /\ lastResp'.outcome \in {"exchange_failed", "profile_failed"} )
        => ( /\ lastResp'.status = 500
             /\ ~lastResp'.saved
             /\ UNCHANGED <<users, savedVia>> ) ]_vars

\* C10, its case: the profile fetch failed after a successful exchange for
\* a state that was pending
C10_Witness ==
    /\ lastResp.status = 500
    /\ lastResp.wasPending
    /\ lastResp.exchanged
    /\ lastResp.outcome = "profile_failed"
    /\ lastResp.state \in consumed

C17_PurgeNeverRestores ==
    [][ \A s \in consumed :
          s \notin DOMAIN pending_auth => s \notin DOMAIN pending_auth' ]_vars

\* C18: in every run of the startup sequence (server started, auth manager
\* registered, bot instance registered, commands loaded), when the
\* callback endpoint answers 200 the tokens of that authorization are in
\* the store under the discord_id its state was issued for, written by
\* this callback before it responded
C18_SuccessPageImpliesSaved ==
    lastResp.status = 200
    => /\ lastResp.saved
       /\ bot_instance
       /\ lastResp.state \in States
       /\ issuer[lastResp.state] \in Users
       /\ users[issuer[lastResp.state]] # NoneRec
       /\ savedVia[issuer[lastResp.state]] = lastResp.state

\* C18, its case: a callback was answered with the success page
C18_Witness ==
    /\ lastResp.status = 200
    /\ lastResp.exchanged
    /\ lastResp.outcome = "ok"
    /\ users[issuer[lastResp.state]] # NoneRec

\* C20: a new authorization URL for a user does not invalidate an earlier
\* state of that user that has not expired: the generate_auth_url call
\* leaves every pending entry that is younger than its cutoff as it was,
\* so both states are pending and each completes its own callback; and a
\* callback that saves leaves the user's row equal to its own tokens,
\* whatever an earlier callback stored, and no other row changed
C20_EarlierStateStaysValid ==
    [][ /\ (gen.pc = "idle" /\ gen'.pc = "iterating")
           => \A s \in DOMAIN pending_auth :
                 s \in DOMAIN pending_auth' /\ pending_auth'[s] = pending_auth[s]
        /\ (gen.pc = "assign" /\ gen'.pc = "idle")
           => \A s \in DOMAIN pending_auth :
                 pending_auth[s].timestamp > gen.cutoff
                 => s \in DOMAIN pending_auth' /\ pending_auth'[s] = pending_auth[s]
        /\ lastResp'.saved
           => /\ users'[issuer[lastResp'.state]] = lastResp'.row
              /\ savedVia'[issuer[lastResp'.state]] = lastResp'.state
              /\ \A e \in Users \ {issuer[lastResp'.state]} : users'[e] = users[e]
      ]_vars

\* C20, its case: a user was issued two states and the callbacks of both
\* got past the removal; the callback of the state issued first has just
\* saved, after the second state was consumed, and the row is its tokens
C20_Witness ==
    /\ issuer["s1"] = issuer["s2"]
    /\ issuer["s1"] \in Users
    /\ consumed = {"s1", "s2"}
    /\ lastResp.saved
    /\ lastResp.state = "s1"
    /\ lastResp.row.access_token = "at2"
    /\ users[issuer["s1"]] = lastResp.row

\* C23: whenever the callback handler has made an event loop for a request,
\* that loop is closed when the handler returns its response, also when
\* handle_callback or save_user_tokens raised
C23_LoopClosedBeforeResponse ==
    lastResp.loop # "none" => lastResp.loop = "closed"

====
